---- MODULE Spec2Model ----
(***************************************************************************)
(* fks_engine: moving-average crossover backtest, forecast orchestration   *)
(* and the per-symbol signal cache (_last_signals).                        *)
(*                                                                         *)
(* The repository holds two copies of the service: src/src/main.py (the    *)
(* full entry point: /backtest, /forecast, /signals) and src/src/_impl.py  *)
(* (a simplified copy: /backtest, /signals).  The variable `module` says   *)
(* which copy is running.                                                  *)
(*                                                                         *)
(* Numbers.  Closes are non-negative integers held in binary floating      *)
(* point: every sum and difference is rounded to the nearest value with    *)
(* MantissaBits significant bits, ties to even, as Python's float does     *)
(* with 53 bits.  The precision is scaled down with the magnitudes: a      *)
(* close of 2^MantissaBits stands where float64 has 2^53.  An average      *)
(* s / w is kept as the pair (s, w) of the rounded running sum and the     *)
(* window; fast > slow is decided by cross-multiplication; the rounding of *)
(* the quotient is not modelled.  Equity is an exact fraction; the         *)
(* rounding of its product is not modelled.                                *)
(*                                                                         *)
(* Indices.  Python sequences are 0-based, TLA+ sequences 1-based: the bar *)
(* at Python index i is element i + 1 here.  Dates are the Python indices. *)
(***************************************************************************)
EXTENDS Integers, Sequences, FiniteSets, TLC

VARIABLES
    module,        \* "main" | "_impl": which copy of the service runs
    env,           \* what clients send and collaborators answer in this run
    closes,        \* backtest local: the close series being scanned
    fast,          \* backtest local: sma(closes, 10)
    slow,          \* backtest local: sma(closes, 20)
    i,             \* backtest local: next bar of the scan loop (1-based)
    pos,           \* backtest local: position
    equity,        \* backtest local: equity multiple
    trades,        \* backtest local: trade count
    last_price,    \* backtest local: close of the last accrued bar
    signals,       \* backtest local: emitted signal events
    last_signals,  \* _last_signals: the cache, a dict in insertion order
    objs,          \* the result dicts, by reference
    served,        \* number of requests taken so far
    req            \* per thread: the request it serves and the handler's locals

scanVars == <<closes, fast, slow, i, pos, equity, trades, last_price, signals>>
svcVars == <<last_signals, objs, served, req>>
vars == <<module, env, scanVars, svcVars>>

----------------------------------------------------------------------------
(* Bounds of the model *)
MaxTail == 5       \* bars of a close series after its flat lead-in
MaxRequests == 3   \* requests served in one run of the service
MantissaBits == 10 \* significant bits of a float (float64: 53)

(* Program constants *)
FastWindow == 10
SlowWindow == 20
TailLen == 5
DefaultLimit == 10
MinLimit == 1
MaxLimit == 1000
DefaultWindow == 64
MinWindow == 16
MaxWindow == 256
YTailLen == 3

Prices == 0..2
Modules == {"main", "_impl"}

----------------------------------------------------------------------------
(* Small helpers *)
Min(a, b) == IF a < b THEN a ELSE b
Max(a, b) == IF a > b THEN a ELSE b
Abs(a) == IF a < 0 THEN -a ELSE a

RECURSIVE Gcd(_, _)
Gcd(a, b) == IF b = 0 THEN a ELSE Gcd(b, a % b)

(* An exact fraction in lowest terms with a positive denominator. *)
Frac(n, d) ==
    LET g == Gcd(Abs(n), Abs(d))
        sgn == IF d < 0 THEN -1 ELSE 1
    IN  IF n = 0 THEN [num |-> 0, den |-> 1]
        ELSE [num |-> sgn * (n \div g), den |-> sgn * (d \div g)]

One == [num |-> 1, den |-> 1]

RECURSIVE Pow2(_)
Pow2(n) == IF n = 0 THEN 1 ELSE 2 * Pow2(n - 1)

(* Below Big every integer is a float; from Big on the floats are spaced   *)
(* by 2, then 4, and so on.                                                *)
Big == Pow2(MantissaBits)

(* The spacing of the floats around a magnitude x >= 0. *)
RECURSIVE Spacing(_, _)
Spacing(x, q) == IF x < Big * q THEN q ELSE Spacing(x, 2 * q)

(* The float nearest to the integer x, ties to the even mantissa: the      *)
(* result of a float addition or subtraction whose exact value is x.       *)
Fl(x) ==
    LET a == Abs(x)
        q == Spacing(a, 1)
        m == a \div q
        r == a % q
        up == 2 * r > q \/ (2 * r = q /\ m % 2 = 1)
        v == (IF up THEN m + 1 ELSE m) * q
    IN  IF a < Big THEN x ELSE IF x < 0 THEN -v ELSE v

(* Optional float: Python None or the average s / w. *)
NoneAvg == [def |-> FALSE, sum |-> 0, w |-> 1]
Avg(s, w) == [def |-> TRUE, sum |-> s, w |-> w]
IsNone(a) == ~a.def
AvgGt(a, b) == a.sum * b.w > b.sum * a.w
AvgLt(a, b) == a.sum * b.w < b.sum * a.w

----------------------------------------------------------------------------
(* sma(series, w): running-sum moving average.  The rest of the loop is a  *)
(* function of the new running sum, so that each iteration works on a      *)
(* value and not on the expression of all the iterations before it.        *)
RECURSIVE smaLoop(_, _, _, _, _)
smaLoop(series, w, k, s, out) ==
    IF k > Len(series) THEN out
    ELSE LET s1 == Fl(s + series[k])
             s2 == IF k - 1 >= w THEN Fl(s1 - series[k - w]) ELSE s1
             rest[v \in {s2}] ==
                 smaLoop(series, w, k + 1, v,
                         Append(out, IF k - 1 >= w - 1 THEN Avg(v, w) ELSE NoneAvg))
         IN  rest[s2]

sma(series, w) == smaLoop(series, w, 1, 0, <<>>)

(* The state of the scan loop of backtest. *)
ScanInit(cl) ==
    [pos |-> 0, equity |-> One, trades |-> 0, last_price |-> cl[1],
     signals |-> <<>>]

(* An event labelled with the opposite action. *)
SignalOpposite(date, action, price) ==
    [date |-> date, action |-> IF action = "BUY" THEN "SELL" ELSE "BUY",
     price |-> price]

Signal(date, action, price) ==
    [date |-> date, action |-> action, price |-> price]

(* The crossover rule turned around: BUY below, SELL above. *)
CrossoverInverted(p, f, s) ==
    IF p <= 0 /\ AvgLt(f, s) THEN "BUY"
    ELSE IF p >= 0 /\ AvgGt(f, s) THEN "SELL"
    ELSE "NONE"

(* The crossover rule without its position guards. *)
CrossoverUnguarded(p, f, s) ==
    IF AvgGt(f, s) THEN "BUY"
    ELSE IF AvgLt(f, s) THEN "SELL"
    ELSE "NONE"

(* The crossover rule: `if pos <= 0 and f > s` / `elif pos >= 0 and f < s`. *)
Crossover(p, f, s) ==
    IF p <= 0 /\ AvgGt(f, s) THEN "BUY"
    ELSE IF p >= 0 /\ AvgLt(f, s) THEN "SELL"
    ELSE "NONE"

(* An accrual that credits the return of the bar whatever the position. *)
AccrueAlways(eq, p, lp, price) ==
    IF lp = 0 THEN eq
    ELSE Frac(eq.num * price, eq.den * lp)

(* ret = (price - last_price) / last_price if last_price else 0.0          *)
(* equity *= (1 + pos * ret)                                               *)
Accrue(eq, p, lp, price) ==
    IF lp = 0 THEN eq
    ELSE Frac(eq.num * (lp + p * (price - lp)), eq.den * lp)

(* One iteration of `for i in range(len(closes))`, at bar k. *)
ScanStep(st, cl, fa, sl, k) ==
    LET f == fa[k]
        s == sl[k]
        price == cl[k]
        date == k - 1
    IN  IF IsNone(f) \/ IsNone(s) THEN st        \* continue
        ELSE
          LET x == Crossover(st.pos, f, s)
              pos1 == IF x = "BUY" THEN 1 ELSE IF x = "SELL" THEN -1 ELSE st.pos
              trades1 == IF x = "NONE" THEN st.trades ELSE st.trades + 1
              signals1 == IF x = "NONE" THEN st.signals
                          ELSE Append(st.signals, Signal(date, x, price))
              equity1 == Accrue(st.equity, pos1, st.last_price, price)
          IN  [pos |-> pos1, equity |-> equity1, trades |-> trades1,
               last_price |-> price, signals |-> signals1]

RECURSIVE ScanFrom(_, _, _, _, _)
ScanFrom(st, cl, fa, sl, k) ==
    IF k > Len(cl) THEN st
    ELSE LET rest[v \in {ScanStep(st, cl, fa, sl, k)}] ==
                 ScanFrom(v, cl, fa, sl, k + 1)
         IN  rest[ScanStep(st, cl, fa, sl, k)]

(* The whole crossover computation of backtest for a non-empty series. *)
RunScan(cl) ==
    ScanFrom(ScanInit(cl), cl, sma(cl, FastWindow), sma(cl, SlowWindow), 1)

----------------------------------------------------------------------------
(* Inputs: a flat lead-in of one price (none, one bar short of the fast    *)
(* window, or one bar short of the slow window) followed by an arbitrary   *)
(* tail, rising and falling ramps, and series that alternate between two   *)
(* prices (their two averages are equal); and series whose running sums are *)
(* rounded: a close at the edge of the precision followed by ones, a flat  *)
(* series of a close whose window sums need more bits than a float has (as *)
(* those of 1850.3 do in float64), and a ramp just below the edge.         *)
Rep(p, n) == [k \in 1..n |-> p]
Ramp(n) == [k \in 1..n |-> k]
Fall(n) == [k \in 1..n |-> n + 1 - k]
Alt(n) == [k \in 1..n |-> 1 + (k % 2)]

LeadIns == {0, FastWindow - 1, SlowWindow - 1}
Tails == UNION {[1..n -> Prices] : n \in 0..MaxTail}
MaxBars == SlowWindow - 1 + MaxTail

Coarse == 3 * Pow2(MantissaBits - 2) + 1
HighRamp(n) == [k \in 1..n |-> Big - 31 + k]

RoundedInputs ==
    {<<Big>> \o Rep(1, n) : n \in {1, 2, 3, FastWindow, SlowWindow}}
    \cup {Rep(Coarse, n) : n \in {SlowWindow, SlowWindow + 1}}
    \cup {HighRamp(n) : n \in SlowWindow..(SlowWindow + 2)}

CloseInputs ==
    {c \in {Rep(p, n) \o t : p \in Prices, n \in LeadIns, t \in Tails} : Len(c) >= 1}
    \cup {Ramp(n) : n \in 1..MaxBars} \cup {Fall(n) : n \in 1..MaxBars}
    \cup {Alt(n) : n \in 2..MaxBars}
    \cup RoundedInputs

----------------------------------------------------------------------------
(* Python values.  A dict is a function on its keys; a list is a sequence; *)
(* an optional argument is <<>> (absent) or <<v>>.                         *)
None == "None"
EmptyDict == <<>>
Get(d, k, dflt) == IF k \in DOMAIN d THEN d[k] ELSE dflt
SetKey(d, k, v) == [x \in (DOMAIN d) \cup {k} |-> IF x = k THEN v ELSE d[x]]

(* s[:n], the first n instead of the last n *)
FirstSlice(s, n) == SubSeq(s, 1, Min(Max(n, 0), Len(s)))

(* s[-n:] *)
LastSlice(s, n) ==
    LET start == IF n > 0 THEN Max(Len(s) - n, 0) ELSE Min(-n, Len(s))
    IN  SubSeq(s, start + 1, Len(s))

(* limit = max(1, min(1000, int(args.get("limit", 10)))) *)
ClampLimit(arg) ==
    LET limit == IF arg = <<>> THEN DefaultLimit ELSE arg[1]
    IN  Max(MinLimit, Min(MaxLimit, limit))

(* A clamp of the window that has no lower end. *)
ClampWindowUpperOnly(arg) ==
    LET window == IF arg = <<>> THEN DefaultWindow ELSE arg[1]
    IN  Min(MaxWindow, window)

(* window = max(16, min(256, int(args.get("window", 64)))) *)
ClampWindow(arg) ==
    LET window == IF arg = <<>> THEN DefaultWindow ELSE arg[1]
    IN  Max(MinWindow, Min(MaxWindow, window))

(* The compact transformer summary built from the predictor's JSON dict j. *)
TfInfo(j) ==
    [ok |-> Get(j, "ok", FALSE),
     shape |-> Get(j, "shape", None),
     window_used |-> Get(j, "window", None),
     horizon_pred |-> Get(j, "horizon_pred", None),
     device |-> Get(j, "device", None),
     y_tail |-> LastSlice(Get(j, "y_tail", <<>>), YTailLen),
     regime_states_tail |-> Get(j, "regime_states_tail", <<>>),
     regime_last |-> Get(j, "regime_last", None),
     confidence |-> Get(j, "confidence", None)]

(* Outcomes of requests.post(.../predict):                                 *)
(*   transport  the call raises (connection error, timeout)                *)
(*   status     a non-2xx answer                                           *)
(*   badjson    2xx, tf.json() raises                                      *)
(*   nondict    2xx, valid JSON that is not an object (j.get raises)       *)
(*   dict       2xx, a JSON object                                         *)
(* tf_ok and tf_info after the try block of backtest. *)
BacktestTf(o) ==
    IF o.kind = "dict" THEN [tf_ok |-> TRUE, tf_info |-> TfInfo(o.body)]
    ELSE [tf_ok |-> FALSE, tf_info |-> EmptyDict]

(* tf_ok, tf_info and resp after the try block of forecast. *)
ForecastTf(o) ==
    IF o.kind = "dict"
        THEN [tf_ok |-> TRUE, tf_info |-> TfInfo(o.body), resp |-> o.body]
    ELSE IF o.kind = "status"
        THEN [tf_ok |-> FALSE, tf_info |-> EmptyDict,
              resp |-> [ok |-> FALSE, status |-> o.code]]
    ELSE IF o.kind = "nondict"     \* tf_ok = True was assigned before j.get raised
        THEN [tf_ok |-> TRUE, tf_info |-> EmptyDict,
              resp |-> [ok |-> FALSE, error |-> o.kind]]
    ELSE [tf_ok |-> FALSE, tf_info |-> EmptyDict,
          resp |-> [ok |-> FALSE, error |-> o.kind]]

(* The result dict of backtest. *)
BacktestResult(mod, symbol, rows, sc, tf) ==
    IF mod = "main"
    THEN [ok |-> TRUE, symbol |-> symbol, trades |-> sc.trades,
          equity |-> sc.equity, tf_ok |-> tf.tf_ok, transformer |-> tf.tf_info,
          n |-> Len(rows), last_date |-> Len(rows) - 1,
          signals_tail |-> LastSlice(sc.signals, TailLen)]
    ELSE [ok |-> TRUE, symbol |-> symbol, trades |-> sc.trades,
          equity |-> sc.equity, n |-> Len(rows), last_date |-> Len(rows) - 1,
          signals_tail |-> LastSlice(sc.signals, TailLen)]

(* An envelope that reports ok whatever the predictor answered. *)
ForecastResultAlwaysOk(symbol, rows, window, tf) ==
    [ok |-> TRUE, symbol |-> symbol, n |-> Len(rows),
     last_date |-> Len(rows) - 1, window |-> window, tf_ok |-> tf.tf_ok,
     transformer |-> tf.tf_info, transformer_raw |-> tf.resp]

(* The result dict (envelope) of forecast. *)
ForecastResult(symbol, rows, window, tf) ==
    [ok |-> Get(tf.resp, "ok", FALSE), symbol |-> symbol, n |-> Len(rows),
     last_date |-> Len(rows) - 1, window |-> window, tf_ok |-> tf.tf_ok,
     transformer |-> tf.tf_info, transformer_raw |-> tf.resp]

(* txt.strip() of the commentary texts used here *)
Strip(txt) == IF txt = " calm " THEN "calm" ELSE txt

(* A commentary step that fails the result when the call failed. *)
AttachCommentStrict(result, txt) ==
    IF txt = None THEN SetKey(result, "ok", FALSE)
    ELSE IF txt = "" THEN result
    ELSE SetKey(result, "llm_comment", Strip(txt))

(* `if txt: result["llm_comment"] = txt.strip()` *)
AttachComment(result, txt) ==
    IF txt = None \/ txt = "" THEN result
    ELSE SetKey(result, "llm_comment", Strip(txt))

----------------------------------------------------------------------------
(* The cache.  A Python dict keeps its keys in insertion order, so the     *)
(* cache is the sequence of its entries.  An entry is                      *)
(* {"signals": list, "summary": result dict}; the summary is held by       *)
(* reference.  sigInv records which invocation computed the signal list,   *)
(* named by the reference of the result dict that invocation built.        *)
Entry(symbol, sigs, sigInv, summary) ==
    [symbol |-> symbol, signals |-> sigs, sigInv |-> sigInv, summary |-> summary]

HasKey(c, sym) == \E k \in 1..Len(c) : c[k].symbol = sym
KeyIndex(c, sym) == CHOOSE k \in 1..Len(c) : c[k].symbol = sym

(* _last_signals.get(sym) *)
CacheGet(c, sym) == IF HasKey(c, sym) THEN <<c[KeyIndex(c, sym)]>> ELSE <<>>

(* A put that updates the signals of an existing entry and keeps its       *)
(* summary.                                                                *)
CachePutSignalsOnly(c, e) ==
    IF HasKey(c, e.symbol)
    THEN [c EXCEPT ![KeyIndex(c, e.symbol)].signals = e.signals,
                   ![KeyIndex(c, e.symbol)].sigInv = e.sigInv]
    ELSE Append(c, e)

(* A put that keeps the signals of an existing entry when the new entry    *)
(* has none.                                                               *)
CachePutMerge(c, e) ==
    IF HasKey(c, e.symbol)
    THEN [c EXCEPT ![KeyIndex(c, e.symbol)] =
             IF e.signals = <<>>
             THEN [e EXCEPT !.signals = c[KeyIndex(c, e.symbol)].signals]
             ELSE e]
    ELSE Append(c, e)

(* A put that rebinds the cache to a dict holding the new entry only. *)
CachePutRebind(c, e) == <<e>>

(* _last_signals[symbol] = {"signals": ..., "summary": ...} *)
CachePut(c, e) ==
    IF HasKey(c, e.symbol) THEN [c EXCEPT ![KeyIndex(c, e.symbol)] = e]
    ELSE Append(c, e)

(* A fetch step that drops the entry of the symbol when the fetch failed. *)
CacheAfterFetchEvicting(c, symbol, failed) ==
    IF failed THEN SelectSeq(c, LAMBDA e : e.symbol # symbol) ELSE c

(* The cache after the fetch step of backtest / forecast: neither the      *)
(* early returns (502, 400) nor the success path assign _last_signals.     *)
CacheAfterFetch(c, symbol, failed) == c

(* A view that trims the stored list itself to the events it returns. *)
CacheAfterViewTrimming(c, sym, k) ==
    IF HasKey(c, sym)
    THEN [c EXCEPT ![KeyIndex(c, sym)].signals = LastSlice(@, k)]
    ELSE c

(* The cache after signals() has built its view: entry["signals"][-k:] is  *)
(* a new list, and signals() assigns neither _last_signals nor an entry.   *)
CacheAfterView(c, sym, k) == c

(* A test that also takes an entry without signals for no entry. *)
NotEntryOrNoSignals(e) == e = <<>> \/ e[1].signals = <<>>

(* `if not entry` *)
NotEntry(e) == e = <<>>

(* The body of signals() for a given symbol, from the entry fetched. *)
SymbolView(mod, sym, entry, limit, heap) ==
    LET summary == heap[entry.summary]
        tf == Get(summary, "transformer", EmptyDict)
    IN  IF mod = "main"
        THEN [ok |-> TRUE, symbol |-> sym,
              signals_tail |-> LastSlice(entry.signals, limit),
              trades |-> Get(summary, "trades", None),
              equity |-> Get(summary, "equity", None),
              last_date |-> Get(summary, "last_date", None),
              n |-> Get(summary, "n", None),
              transformer |->
                [ok |-> Get(tf, "ok", FALSE),
                 shape |-> Get(tf, "shape", None),
                 horizon_pred |-> Get(tf, "horizon_pred", None),
                 device |-> Get(tf, "device", None),
                 window_used |-> Get(tf, "window_used", None),
                 regime_last |-> Get(tf, "regime_last", None),
                 confidence |-> Get(tf, "confidence", None)]]
        ELSE [ok |-> TRUE, symbol |-> sym,
              signals |-> LastSlice(entry.signals, TailLen),
              summary |-> summary]

(* One item of the map built by signals() without a symbol: the trimmed    *)
(* signals and a reference to the summary.                                 *)
MapItem(mod, entry, limit) ==
    [symbol |-> entry.symbol,
     signals |-> LastSlice(entry.signals, IF mod = "main" THEN limit ELSE TailLen),
     sigInv |-> entry.sigInv,
     summary |-> entry.summary]

(* jsonify(out): the summaries are read through their references. *)
MapBody(out, heap) ==
    [k \in 1..Len(out) |->
        [symbol |-> out[k].symbol, signals |-> out[k].signals,
         summary |-> heap[out[k].summary]]]

----------------------------------------------------------------------------
(* Inputs of the service. *)
Threads == {1, 2}
Symbols == {"GC=F", "SI=F"}

Lead == Rep(1, SlowWindow - 1)
Series2 == Lead \o <<2, 0, 0>>                             \* BUY, SELL
Series6 == Lead \o <<0, 2, 2, 0, 0, 2, 2, 0, 0, 0, 2>>     \* six signals

(* Outcomes of requests.get(.../daily): the call or raise_for_status       *)
(* raises, or the payload holds the rows (possibly none).                  *)
FetchOutcomes(series) ==
    {[kind |-> "error", rows |-> <<>>]}
    \cup {[kind |-> "rows", rows |-> r] : r \in series \cup {<<>>}}

GoodBody ==
    [ok |-> TRUE, shape |-> 8, window |-> 64, horizon_pred |-> 1,
     device |-> "cpu", y_tail |-> <<1, 2, 3, 4>>, regime_states_tail |-> <<0, 1>>,
     regime_last |-> 1, confidence |-> 9]

PredictOutcome(k) ==
    [kind |-> k,
     code |-> IF k = "status" THEN 500 ELSE IF k \in {"transport"} THEN 0 ELSE 200,
     body |-> IF k = "dict" THEN GoodBody ELSE EmptyDict]

(* Results of _ollama_generate: None on any failure, else the text. *)
CommentOutcomes == {None, "", " calm "}

(* The environment of a run: what the clients send and what the           *)
(* collaborators answer.  With concurrent requests the contents are few.   *)
ConcurrentEnv ==
    [threads |-> Threads,
     series |-> {Series2},
     predict |-> {PredictOutcome("dict")},
     comment |-> {None, " calm "},
     limitArgs |-> {<<1>>},
     windowArgs |-> {<<>>}]

(* With one request at a time, a run is rich in one kind of content. *)
SequentialEnvs ==
    LET base == [ConcurrentEnv EXCEPT !.threads = {1}]
    IN  {[base EXCEPT !.series = {<<1>>, Series2, Series6}],
         [base EXCEPT !.predict = {PredictOutcome(k) :
              k \in {"transport", "status", "badjson", "nondict", "dict"}}],
         [base EXCEPT !.comment = CommentOutcomes],
         [base EXCEPT !.limitArgs = {<<>>, <<0>>, <<1>>, <<2>>, <<5000>>}],
         [base EXCEPT !.windowArgs = {<<>>, <<5>>, <<100>>, <<9999>>}]}

----------------------------------------------------------------------------
(* A thread of the server: the request it serves and the handler's locals. *)
(* result is the reference of the handler's result dict (0: none yet);     *)
(* sent is the JSON body of the request made to the predictor and answer   *)
(* the kind of outcome that request had (None: not made).                  *)
IdleReq ==
    [pc |-> "idle", kind |-> "none", symbol |-> None, with_llm |-> FALSE,
     limitArg |-> <<>>, limit |-> 0, windowArg |-> <<>>, window |-> 0,
     rows |-> <<>>, signals |-> <<>>, trades |-> 0, equity |-> One,
     sent |-> EmptyDict, answer |-> None, tf |-> EmptyDict, result |-> 0, entry |-> <<>>, it_used |-> 0,
     it_pos |-> 0, out |-> <<>>, status |-> 0, body |-> EmptyDict]

(* The handler returns: the response is kept, the locals die. *)
Finish(r, status, body) ==
    [IdleReq EXCEPT !.pc = "done", !.kind = r.kind, !.symbol = r.symbol,
                    !.with_llm = r.with_llm, !.limitArg = r.limitArg,
                    !.limit = r.limit, !.windowArg = r.windowArg,
                    !.window = r.window, !.status = status, !.body = body]

(* The result dicts that the cache or a handler's local refers to.  A dict *)
(* nobody refers to is freed and its reference can be used again.          *)
SeqRefs(q) == {q[k].summary : k \in 1..Len(q)}

LiveRefs(c, rq) ==
    SeqRefs(c)
    \cup UNION {SeqRefs(rq[t].entry) \cup SeqRefs(rq[t].out) : t \in DOMAIN rq}
    \cup {rq[t].result : t \in {u \in DOMAIN rq : rq[u].result # 0}}

Collect(heap, c, rq) ==
    [a \in (DOMAIN heap) \cap LiveRefs(c, rq) |-> heap[a]]

NewRef(heap) ==
    CHOOSE a \in 1..(Cardinality(DOMAIN heap) + 1) :
        a \notin DOMAIN heap /\ \A b \in 1..(a - 1) : b \in DOMAIN heap

(* A new request goes to the first thread that is not serving one. *)
Idle(t) == req[t].pc \in {"idle", "done"}
Free(t) ==
    /\ Idle(t)
    /\ \A u \in DOMAIN req : u < t => ~Idle(u)
    /\ served < MaxRequests

Init ==
    /\ module \in Modules
    /\ env = ConcurrentEnv
    /\ closes = <<>> /\ fast = <<>> /\ slow = <<>> /\ i = 0
    /\ pos = 0 /\ equity = One /\ trades = 0 /\ last_price = 0 /\ signals = <<>>
    /\ last_signals = <<>>
    /\ objs = EmptyDict
    /\ served = 0
    /\ req = [t \in env.threads |-> IdleReq]

(* backtest(): argument parsing, lines 86-91 *)
StartBacktest(t) ==
    /\ Free(t)
    /\ \E sym \in Symbols, llm \in BOOLEAN :
         req' = [req EXCEPT ![t] =
                   [IdleReq EXCEPT !.pc = "fetch", !.kind = "backtest",
                                   !.symbol = sym, !.with_llm = llm]]
    /\ served' = served + 1
    /\ UNCHANGED <<module, env, scanVars, last_signals, objs>>

(* backtest(): fetch of the rows, the two early returns, and the crossover *)
(* computation on the handler's own data.                                  *)
BacktestFetch(t) ==
    /\ req[t].pc = "fetch" /\ req[t].kind = "backtest"
    /\ \E o \in FetchOutcomes(env.series) :
         LET r == req[t]
             failed == o.kind = "error" \/ o.rows = <<>>
         IN  /\ last_signals' = CacheAfterFetch(last_signals, r.symbol, failed)
             /\ IF o.kind = "error"
                  THEN req' = [req EXCEPT ![t] =
                         Finish(r, 502, [ok |-> FALSE, error |-> "data_service"])]
                ELSE IF o.rows = <<>>
                  THEN req' = [req EXCEPT ![t] =
                         Finish(r, 400, [ok |-> FALSE, error |-> "no data"])]
                ELSE LET st == RunScan(o.rows)
                     IN  req' = [req EXCEPT ![t] =
                           [r EXCEPT !.pc = IF module = "main" THEN "predict" ELSE "store",
                                     !.rows = o.rows, !.signals = st.signals,
                                     !.trades = st.trades, !.equity = st.equity]]
    /\ UNCHANGED <<module, env, scanVars, objs, served>>

(* backtest() of main.py: the predictor call, lines 156-183 *)
BacktestPredict(t) ==
    /\ req[t].pc = "predict" /\ req[t].kind = "backtest"
    /\ \E o \in env.predict :
         req' = [req EXCEPT ![t].pc = "store",
                            ![t].sent = [series |-> req[t].rows],
                            ![t].answer = o.kind,
                            ![t].tf = BacktestTf(o)]
    /\ UNCHANGED <<module, env, scanVars, last_signals, objs, served>>

(* backtest(): result = {...}; _last_signals[symbol] = {...}; and the      *)
(* return when with_llm is off.                                            *)
BacktestStore(t) ==
    /\ req[t].pc = "store" /\ req[t].kind = "backtest"
    /\ LET r == req[t]
           ref == NewRef(objs)
           result == BacktestResult(module, r.symbol, r.rows, r, r.tf)
       IN  /\ last_signals' = CachePut(last_signals,
                                       Entry(r.symbol, r.signals, ref, ref))
           /\ req' = [req EXCEPT ![t] =
                        IF r.with_llm THEN [r EXCEPT !.pc = "comment", !.result = ref]
                        ELSE Finish(r, 200, result)]
           /\ objs' = Collect(SetKey(objs, ref, result), last_signals', req')
    /\ UNCHANGED <<module, env, scanVars, served>>

(* backtest(): the commentary call, result["llm_comment"] = ..., return *)
BacktestComment(t) ==
    /\ req[t].pc = "comment" /\ req[t].kind = "backtest"
    /\ \E txt \in env.comment :
         LET r == req[t]
             result == AttachComment(objs[r.result], txt)
         IN  /\ req' = [req EXCEPT ![t] = Finish(r, 200, result)]
             /\ objs' = Collect([objs EXCEPT ![r.result] = result], last_signals, req')
    /\ UNCHANGED <<module, env, scanVars, last_signals, served>>

(* forecast(): argument parsing with the window clamp, lines 217-227 *)
StartForecast(t) ==
    /\ module = "main"
    /\ Free(t)
    /\ \E sym \in Symbols, llm \in BOOLEAN, wa \in env.windowArgs :
         req' = [req EXCEPT ![t] =
                   [IdleReq EXCEPT !.pc = "fetch", !.kind = "forecast",
                                   !.symbol = sym, !.with_llm = llm,
                                   !.windowArg = wa, !.window = ClampWindow(wa)]]
    /\ served' = served + 1
    /\ UNCHANGED <<module, env, scanVars, last_signals, objs>>

(* forecast(): fetch of the rows and the two early returns *)
ForecastFetch(t) ==
    /\ req[t].pc = "fetch" /\ req[t].kind = "forecast"
    /\ \E o \in FetchOutcomes(env.series) :
         LET r == req[t]
             failed == o.kind = "error" \/ o.rows = <<>>
         IN  /\ last_signals' = CacheAfterFetch(last_signals, r.symbol, failed)
             /\ IF o.kind = "error"
                  THEN req' = [req EXCEPT ![t] =
                         Finish(r, 502, [ok |-> FALSE, error |-> "data_service"])]
                ELSE IF o.rows = <<>>
                  THEN req' = [req EXCEPT ![t] =
                         Finish(r, 400, [ok |-> FALSE, error |-> "no data"])]
                ELSE req' = [req EXCEPT ![t].pc = "predict", ![t].rows = o.rows]
    /\ UNCHANGED <<module, env, scanVars, objs, served>>

(* forecast(): the predictor call, lines 253-282 *)
ForecastPredict(t) ==
    /\ req[t].pc = "predict" /\ req[t].kind = "forecast"
    /\ \E o \in env.predict :
         req' = [req EXCEPT ![t].pc = "store",
                            ![t].sent = [series |-> req[t].rows,
                                         window |-> req[t].window],
                            ![t].answer = o.kind,
                            ![t].tf = ForecastTf(o)]
    /\ UNCHANGED <<module, env, scanVars, last_signals, objs, served>>

(* forecast(): result = {...}; _last_signals[symbol] = {"signals": [], ...} *)
(* and the return when with_llm is off.                                    *)
ForecastStore(t) ==
    /\ req[t].pc = "store" /\ req[t].kind = "forecast"
    /\ LET r == req[t]
           ref == NewRef(objs)
           result == ForecastResult(r.symbol, r.rows, r.window, r.tf)
       IN  /\ last_signals' = CachePut(last_signals, Entry(r.symbol, <<>>, ref, ref))
           /\ req' = [req EXCEPT ![t] =
                        IF r.with_llm THEN [r EXCEPT !.pc = "comment", !.result = ref]
                        ELSE Finish(r, 200, result)]
           /\ objs' = Collect(SetKey(objs, ref, result), last_signals', req')
    /\ UNCHANGED <<module, env, scanVars, served>>

(* forecast(): the commentary call, result["llm_comment"] = ..., return *)
ForecastComment(t) ==
    /\ req[t].pc = "comment" /\ req[t].kind = "forecast"
    /\ \E txt \in env.comment :
         LET r == req[t]
             result == AttachComment(objs[r.result], txt)
         IN  /\ req' = [req EXCEPT ![t] = Finish(r, 200, result)]
             /\ objs' = Collect([objs EXCEPT ![r.result] = result], last_signals, req')
    /\ UNCHANGED <<module, env, scanVars, last_signals, served>>

(* signals(): argument parsing with the limit clamp (main.py only; the     *)
(* copy in _impl.py does not read limit).  An empty symbol counts as no    *)
(* symbol (`if sym`).                                                      *)
StartSignals(t) ==
    /\ Free(t)
    /\ \E sym \in Symbols \cup {None}, la \in env.limitArgs :
         req' = [req EXCEPT ![t] =
                   [IdleReq EXCEPT !.pc = IF sym = None THEN "begin" ELSE "get",
                                   !.kind = "signals", !.symbol = sym,
                                   !.limitArg = la,
                                   !.limit = IF module = "main" THEN ClampLimit(la) ELSE 0]]
    /\ served' = served + 1
    /\ UNCHANGED <<module, env, scanVars, last_signals, objs>>

(* signals(): entry = _last_signals.get(sym); 404 if there is none *)
SignalsGet(t) ==
    /\ req[t].pc = "get"
    /\ LET r == req[t]
           entry == CacheGet(last_signals, r.symbol)
       IN  req' = [req EXCEPT ![t] =
                     IF NotEntry(entry)
                     THEN Finish(r, 404, [ok |-> FALSE, error |-> "no signals",
                                          symbol |-> r.symbol])
                     ELSE [r EXCEPT !.pc = "view", !.entry = entry]]
    /\ UNCHANGED <<module, env, scanVars, last_signals, objs, served>>

(* signals(): the view of the entry fetched, and the return *)
SignalsView(t) ==
    /\ req[t].pc = "view"
    /\ LET r == req[t]
       IN  req' = [req EXCEPT ![t] =
                     Finish(r, 200, SymbolView(module, r.symbol, r.entry[1],
                                               r.limit, objs))]
    /\ last_signals' = CacheAfterView(last_signals, req[t].symbol,
                                      IF module = "main" THEN req[t].limit ELSE TailLen)
    /\ objs' = Collect(objs, last_signals', req')
    /\ UNCHANGED <<module, env, scanVars, served>>

(* signals() without a symbol: out = {} and the iterator over              *)
(* _last_signals.items(), which remembers the size of the dict             *)
SignalsBegin(t) ==
    /\ req[t].pc = "begin"
    /\ req' = [req EXCEPT ![t].pc = "iterate",
                          ![t].it_used = Len(last_signals), ![t].it_pos = 0]
    /\ UNCHANGED <<module, env, scanVars, last_signals, objs, served>>

(* signals() without a symbol: one next() of the iterator and the loop     *)
(* body.  next() raises RuntimeError when the dict changed size; at the    *)
(* end of the dict the handler returns jsonify(out).                       *)
SignalsNext(t) ==
    /\ req[t].pc = "iterate"
    /\ LET r == req[t]
       IN  req' = [req EXCEPT ![t] =
                     IF Len(last_signals) # r.it_used
                       THEN Finish(r, 500, [ok |-> FALSE, error |-> "RuntimeError"])
                     ELSE IF r.it_pos = r.it_used
                       THEN Finish(r, 200, MapBody(r.out, objs))
                     ELSE [r EXCEPT !.it_pos = r.it_pos + 1,
                                    !.out = Append(r.out,
                                              MapItem(module, last_signals[r.it_pos + 1],
                                                      r.limit))]]
    /\ objs' = Collect(objs, last_signals, req')
    /\ UNCHANGED <<module, env, scanVars, last_signals, served>>

Next ==
    \E t \in DOMAIN req :
        \/ StartBacktest(t) \/ BacktestFetch(t) \/ BacktestPredict(t)
        \/ BacktestStore(t) \/ BacktestComment(t)
        \/ StartForecast(t) \/ ForecastFetch(t) \/ ForecastPredict(t)
        \/ ForecastStore(t) \/ ForecastComment(t)
        \/ StartSignals(t) \/ SignalsGet(t) \/ SignalsView(t)
        \/ SignalsBegin(t) \/ SignalsNext(t)

Spec == Init /\ [][Next]_vars

(* The same service serving one request at a time. *)
InitSequential ==
    /\ module \in Modules
    /\ env \in SequentialEnvs
    /\ closes = <<>> /\ fast = <<>> /\ slow = <<>> /\ i = 0
    /\ pos = 0 /\ equity = One /\ trades = 0 /\ last_price = 0 /\ signals = <<>>
    /\ last_signals = <<>>
    /\ objs = EmptyDict
    /\ served = 0
    /\ req = [t \in env.threads |-> IdleReq]

SpecSequential == InitSequential /\ [][Next]_vars

----------------------------------------------------------------------------
(* The crossover scan, one bar per step. *)
ScanStart ==
    /\ module = "main"          \* the scan is the same code in both copies
    /\ env = ConcurrentEnv
    /\ closes \in CloseInputs
    /\ fast = sma(closes, FastWindow)
    /\ slow = sma(closes, SlowWindow)
    /\ i = 1
    /\ pos = ScanInit(closes).pos
    /\ equity = ScanInit(closes).equity
    /\ trades = ScanInit(closes).trades
    /\ last_price = ScanInit(closes).last_price
    /\ signals = ScanInit(closes).signals
    /\ last_signals = <<>>
    /\ objs = EmptyDict
    /\ served = 0
    /\ req = [t \in env.threads |-> IdleReq]

ScanState ==
    [pos |-> pos, equity |-> equity, trades |-> trades,
     last_price |-> last_price, signals |-> signals]

ScanBar ==
    /\ i <= Len(closes)
    /\ LET st == ScanStep(ScanState, closes, fast, slow, i)
       IN  /\ pos' = st.pos
           /\ equity' = st.equity
           /\ trades' = st.trades
           /\ last_price' = st.last_price
           /\ signals' = st.signals
    /\ i' = i + 1
    /\ UNCHANGED <<module, env, closes, fast, slow, svcVars>>

ScanNext == ScanBar

SpecScan == ScanStart /\ [][ScanNext]_vars

----------------------------------------------------------------------------
(* C1: the signal list never has more entries than trades, and no two      *)
(* consecutive signals have the same action.                               *)
C1_Alternating ==
    /\ Len(signals) <= trades
    /\ \A k \in 1..(Len(signals) - 1) : signals[k].action # signals[k + 1].action

C1_Witness ==
    /\ i = Len(closes) + 1
    /\ Len(signals) >= 3
    /\ signals[1].action = "BUY"
    /\ signals[2].action = "SELL"
    /\ signals[3].action = "BUY"

----------------------------------------------------------------------------
(* Vocabulary of the claims about the service. *)
Step(t, from, to) == req[t].pc = from /\ req'[t].pc = to
Cached(sym) == \E k \in 1..Len(last_signals) : last_signals[k].symbol = sym
CachedEntry(sym) == CHOOSE e \in {last_signals[k] : k \in 1..Len(last_signals)} : e.symbol = sym
Clamped(x, lo, hi) == IF x < lo THEN lo ELSE IF x > hi THEN hi ELSE x
RequestedLimit(arg) == IF arg = <<>> THEN DefaultLimit ELSE arg[1]
IsLastK(r, q, k) ==
    /\ Len(r) = (IF k < Len(q) THEN k ELSE Len(q))
    /\ \A j \in 1..Len(r) : r[j] = q[Len(q) - Len(r) + j]
RespSignals(b) == IF "signals_tail" \in DOMAIN b THEN b.signals_tail ELSE b.signals
RespField(b, f) == IF "summary" \in DOMAIN b THEN Get(b.summary, f, None) ELSE b[f]
SummaryFields == {"trades", "equity", "last_date", "n"}

(* C2 (as claimed): no cache write takes place while another request is    *)
(* in the middle of reading the cache, i.e. has an iteration over all      *)
(* entries open.                                                           *)
C2_MutualExclusion ==
    [][last_signals' # last_signals
         => \A t \in DOMAIN req : req[t].pc # "iterate"]_vars

(* C3: the signals and the summary that a QuerySignals call holds for a    *)
(* symbol (the entry it fetched, or an item of the map it builds) were     *)
(* produced by the same invocation, whatever was written in between.       *)
C3_PairFromOneInvocation ==
    \A t \in DOMAIN req :
        /\ \A k \in 1..Len(req[t].entry) :
              req[t].entry[k].sigInv = req[t].entry[k].summary
        /\ \A k \in 1..Len(req[t].out) :
              req[t].out[k].sigInv = req[t].out[k].summary

(* A reader holds the entry it fetched while a later invocation has        *)
(* already replaced the entry of that symbol in the cache.                 *)
C3_Witness ==
    \E t \in DOMAIN req :
        /\ req[t].pc = "view"
        /\ Cached(req[t].symbol)
        /\ CachedEntry(req[t].symbol).summary # req[t].entry[1].summary
        /\ req[t].entry[1].signals # CachedEntry(req[t].symbol).signals

(* C4: a RunBacktest or RunForecast that fails in its fetch step (502 on   *)
(* a failed fetch, 400 on an empty series) leaves the cache and the        *)
(* stored summaries exactly as they were.                                  *)
C4_FailedFetchKeepsCache ==
    [][\A t \in DOMAIN req :
          (Step(t, "fetch", "done") /\ req'[t].status \in {400, 502})
             => (last_signals' = last_signals /\ objs' = objs)]_vars

(* A request has failed in its fetch while the cache holds an entry for    *)
(* the symbol it asked for.                                                *)
C4_Witness ==
    \E t \in DOMAIN req :
        /\ req[t].pc = "done"
        /\ req[t].kind \in {"backtest", "forecast"}
        /\ req[t].status \in {400, 502}
        /\ Cached(req[t].symbol)

(* C5 (as claimed): the summary the cache holds for a symbol changes only  *)
(* when the entry of that symbol is written again.                         *)
C5_StoredSummaryImmutable ==
    [][\A k \in 1..Len(last_signals) :
          (k <= Len(last_signals') /\ last_signals'[k] = last_signals[k])
             => objs'[last_signals[k].summary] = objs[last_signals[k].summary]]_vars

(* C6 (as claimed): while the commentary call of a request has not         *)
(* finished, the cache has not been updated by that request.               *)
C6_CacheAfterCommentary ==
    \A t \in DOMAIN req :
        req[t].pc = "comment"
           => \A k \in 1..Len(last_signals) : last_signals[k].summary # req[t].result

(* C7 (as claimed): QuerySignals for a symbol returns the stored signals   *)
(* and the stored summary, whole and unmodified.                           *)
C7_RoundTripExact ==
    [][\A t \in DOMAIN req :
          Step(t, "view", "done")
             => LET e == req[t].entry[1]
                    b == req'[t].body
                IN  /\ RespSignals(b) = e.signals
                    /\ "summary" \in DOMAIN b
                    /\ b.summary = objs[e.summary]]_vars

(* C7 (amended): QuerySignals for a symbol fetches the entry last put for  *)
(* it and returns its signals trimmed to the last k in stored order (k the *)
(* clamped limit in main.py, 5 in _impl.py; the whole list when it has at  *)
(* most k events) and the trades, equity, last_date and n of its summary.  *)
C7_RoundTripView ==
    [][\A t \in DOMAIN req :
          /\ Step(t, "get", "view")
                => /\ Cached(req[t].symbol)
                   /\ req'[t].entry = <<CachedEntry(req[t].symbol)>>
          /\ Step(t, "view", "done")
                => LET e == req[t].entry[1]
                       b == req'[t].body
                       k == IF module = "main"
                            THEN Clamped(RequestedLimit(req[t].limitArg), MinLimit, MaxLimit)
                            ELSE TailLen
                   IN  /\ IsLastK(RespSignals(b), e.signals, k)
                       /\ Len(e.signals) <= k => RespSignals(b) = e.signals
                       /\ \A f \in SummaryFields :
                             RespField(b, f) = Get(objs[e.summary], f, None)]_vars

(* A query has returned fewer signals than the cache holds for the symbol. *)
C7_Witness ==
    \E t \in DOMAIN req :
        /\ req[t].pc = "done" /\ req[t].kind = "signals" /\ req[t].status = 200
        /\ req[t].symbol # None
        /\ Cached(req[t].symbol)
        /\ Len(RespSignals(req[t].body)) >= 1
        /\ Len(RespSignals(req[t].body)) < Len(CachedEntry(req[t].symbol).signals)

(* C8 (as claimed): QuerySignals for a cached symbol returns exactly the   *)
(* last min(L, len(signals)) stored events in stored order, L being the    *)
(* requested limit clamped into [1, 1000].                                 *)
C8_LimitClamped ==
    [][\A t \in DOMAIN req :
          Step(t, "view", "done")
             => IsLastK(RespSignals(req'[t].body), req[t].entry[1].signals,
                        Clamped(RequestedLimit(req[t].limitArg), MinLimit, MaxLimit))]_vars

(* C8, main.py alone: the signals() of main.py does what C8 claims; the    *)
(* violation of C8_LimitClamped comes from the copy in _impl.py.           *)
C8_LimitClampedMain ==
    [][module = "main" =>
         \A t \in DOMAIN req :
            Step(t, "view", "done")
               => IsLastK(RespSignals(req'[t].body), req[t].entry[1].signals,
                          Clamped(RequestedLimit(req[t].limitArg), MinLimit, MaxLimit))]_vars

(* C9: QuerySignals with a symbol answers NotFound (404) exactly when the  *)
(* cache holds no entry for the symbol at the time of the lookup; when an  *)
(* entry exists it goes on to return the view of that symbol.              *)
C9_NotFoundIffAbsent ==
    [][\A t \in DOMAIN req :
          /\ (req[t].pc = "get" /\ req'[t] # req[t])
                => /\ (req'[t].pc = "done" /\ req'[t].status = 404)
                          <=> ~Cached(req[t].symbol)
                   /\ Cached(req[t].symbol) => req'[t].pc = "view"
          /\ Step(t, "view", "done")
                => /\ req'[t].status = 200
                   /\ req'[t].body.ok
                   /\ req'[t].body.symbol = req[t].symbol]_vars

(* A query was answered NotFound for a symbol the cache does not hold,     *)
(* while it holds an entry (without signals) for another symbol.           *)
C9_Witness ==
    \E t \in DOMAIN req :
        /\ req[t].pc = "done" /\ req[t].kind = "signals" /\ req[t].status = 404
        /\ ~Cached(req[t].symbol)
        /\ \E k \in 1..Len(last_signals) : last_signals[k].signals = <<>>

(* C10: an entry of the cache is never removed by any step, and a query    *)
(* for a symbol that has an entry is never answered NotFound.              *)
C10_EntryNeverRemoved ==
    [][\A s \in Symbols :
          Cached(s)
             => /\ \E k \in 1..Len(last_signals') : last_signals'[k].symbol = s
                /\ \A t \in DOMAIN req :
                      (req[t].pc = "get" /\ req[t].symbol = s)
                         => ~(req'[t].pc = "done" /\ req'[t].status = 404)]_vars

(* Both symbols are cached and a query for the one cached first has        *)
(* succeeded.                                                              *)
C10_Witness ==
    /\ Len(last_signals) = 2
    /\ \E t \in DOMAIN req :
          /\ req[t].pc = "done" /\ req[t].kind = "signals" /\ req[t].status = 200
          /\ req[t].symbol = last_signals[1].symbol

----------------------------------------------------------------------------
(* Vocabulary of the claims about the predictor and the commentary. *)
EnvelopeKeys ==
    {"ok", "symbol", "n", "last_date", "window", "tf_ok", "transformer",
     "transformer_raw"}
PredictorFailures == {"transport", "status", "badjson", "nondict"}
Without(d, key) == [x \in (DOMAIN d) \ {key} |-> d[x]]
RequestedWindow(arg) == IF arg = <<>> THEN DefaultWindow ELSE arg[1]
Returns(t) == req[t].pc \in {"store", "comment"} /\ req'[t].pc = "done"

(* C11: a RunForecast whose predictor call timed out or failed in          *)
(* transport does not abort: it goes on to its store step and returns      *)
(* status 200 with its normal envelope, in which ok = false.               *)
C11_ForecastSoftFailure ==
    [][\A t \in DOMAIN req :
          req[t].kind = "forecast"
             => /\ (req[t].pc = "predict" /\ req'[t] # req[t])
                      => req'[t].pc = "store"
                /\ (req[t].answer = "transport" /\ req'[t] # req[t])
                      => /\ req'[t].pc \in {"comment", "done"}
                         /\ req'[t].pc = "comment"
                               => objs'[req'[t].result].ok = FALSE
                         /\ req'[t].pc = "done"
                               => /\ req'[t].status = 200
                                  /\ (DOMAIN req'[t].body) \ {"llm_comment"} = EnvelopeKeys
                                  /\ req'[t].body.ok = FALSE]_vars

(* A forecast has returned its envelope after a transport failure of the   *)
(* predictor call.                                                         *)
C11_Witness ==
    \E t \in DOMAIN req :
        /\ req[t].pc = "done" /\ req[t].kind = "forecast" /\ req[t].status = 200
        /\ Get(req[t].body.transformer_raw, "error", None) = "transport"
        /\ req[t].body.ok = FALSE

(* C12 (as claimed): after any failure of the predictor call (transport,   *)
(* non-2xx status, a body that is not the expected JSON object),           *)
(* RunBacktest and RunForecast build a result with tf_ok false and an      *)
(* empty transformer summary.                                              *)
C12_PredictorFailureSummary ==
    [][\A t \in DOMAIN req :
          (/\ req[t].pc = "store"
           /\ req[t].answer \in PredictorFailures
           /\ req'[t].pc \in {"comment", "done"})
             => LET result == IF req'[t].pc = "done" THEN req'[t].body
                              ELSE objs'[req'[t].result]
                IN  /\ result.tf_ok = FALSE
                    /\ result.transformer = EmptyDict]_vars

(* C13: a RunBacktest that got a non-empty series returns status 200 and   *)
(* ok = true with the trades, the equity and the last five signals of its  *)
(* scan, whatever the predictor and the commentary call answered; the      *)
(* commentary step changes nothing of the result but llm_comment.          *)
C13_BacktestAlwaysSucceeds ==
    [][\A t \in DOMAIN req :
          req[t].kind = "backtest"
             => /\ Step(t, "fetch", "done") => req'[t].status \in {400, 502}
                /\ (req[t].pc \in {"predict", "store", "comment"} /\ req'[t] # req[t])
                      => req'[t].pc \in {"store", "comment", "done"}
                /\ Returns(t)
                      => /\ req'[t].status = 200
                         /\ req'[t].body.ok = TRUE
                         /\ req'[t].body.trades = req[t].trades
                         /\ req'[t].body.equity = req[t].equity
                         /\ IsLastK(req'[t].body.signals_tail, req[t].signals, TailLen)
                /\ Step(t, "comment", "done")
                      => Without(req'[t].body, "llm_comment")
                           = Without(objs[req[t].result], "llm_comment")]_vars

(* A backtest has returned ok after both the predictor call and the        *)
(* commentary call failed.                                                 *)
C13_Witness ==
    \E t \in DOMAIN req :
        /\ req[t].pc = "done" /\ req[t].kind = "backtest" /\ req[t].status = 200
        /\ req[t].with_llm
        /\ "tf_ok" \in DOMAIN req[t].body
        /\ req[t].body.tf_ok = FALSE
        /\ "llm_comment" \notin DOMAIN req[t].body
        /\ req[t].body.ok = TRUE

(* C14: the window that RunForecast sends to the predictor and reports in  *)
(* its envelope is the requested window clamped into [16, 256]: 5 gives    *)
(* 16, 9999 gives 256, 100 stays 100.                                      *)
C14_WindowClamped ==
    [][\A t \in DOMAIN req :
          req[t].kind = "forecast"
             => LET w == Clamped(RequestedWindow(req[t].windowArg), MinWindow, MaxWindow)
                IN  /\ Step(t, "predict", "store")
                          => /\ req'[t].sent.window = w
                             /\ req[t].windowArg = <<5>> => req'[t].sent.window = 16
                             /\ req[t].windowArg = <<9999>> => req'[t].sent.window = 256
                             /\ req[t].windowArg = <<100>> => req'[t].sent.window = 100
                    /\ Returns(t) => req'[t].body.window = w]_vars

(* Forecasts asked for with windows below and above the range have         *)
(* returned their envelopes.                                               *)
C14_Witness ==
    \E t \in DOMAIN req :
        /\ req[t].pc = "done" /\ req[t].kind = "forecast" /\ req[t].status = 200
        /\ req[t].windowArg = <<9999>>
        /\ req[t].body.window = 256
        /\ \E k \in 1..Len(last_signals) :
              /\ "window" \in DOMAIN objs[last_signals[k].summary]
              /\ objs[last_signals[k].summary].window = 16

----------------------------------------------------------------------------
(* Vocabulary of the claims about the scan. *)
RECURSIVE SumOf(_, _, _)
SumOf(q, a, b) == IF a > b THEN 0 ELSE q[a] + SumOf(q, a + 1, b)
ScanDone == i = Len(closes) + 1
StrictlyIncreasing(q) == \A k \in 1..(Len(q) - 1) : q[k] < q[k + 1]
Actions(q) == {q[k].action : k \in 1..Len(q)}
DefinedFrom(out, q, w) ==
    /\ Len(out) = Len(q)
    /\ \A k \in 1..Len(q) : out[k].def <=> k - 1 >= w - 1
WindowMean(out, q, w) ==
    \A k \in 1..Len(q) :
        out[k].def => (out[k].w = w /\ out[k].sum = SumOf(q, k - w + 1, k))

(* C15 (as claimed): for every window w, sma is defined at index i iff     *)
(* i >= w - 1, and where defined its running sum is the sum of the w       *)
(* closes at i-w+1..i; checked on the two averages of the scan and on      *)
(* windows 1 to 3.                                                         *)
C15_SmaIsWindowMean ==
    /\ DefinedFrom(fast, closes, FastWindow) /\ WindowMean(fast, closes, FastWindow)
    /\ DefinedFrom(slow, closes, SlowWindow) /\ WindowMean(slow, closes, SlowWindow)
    /\ \A w \in 1..3 :
          /\ DefinedFrom(sma(closes, w), closes, w)
          /\ WindowMean(sma(closes, w), closes, w)

(* C15, the first half alone: sma is defined at index i iff i >= w - 1.    *)
C15_SmaDefinedFromWindow ==
    /\ DefinedFrom(fast, closes, FastWindow)
    /\ DefinedFrom(slow, closes, SlowWindow)
    /\ \A w \in 1..3 : DefinedFrom(sma(closes, w), closes, w)

C17_FlatEquity ==
    (pos = 0 /\ signals = <<>>) => equity = One

(* A scan has ended without any crossover on a series whose price changed  *)
(* on bars after the warm-up.                                              *)
C17_Witness ==
    /\ ScanDone
    /\ Len(closes) > SlowWindow
    /\ pos = 0 /\ signals = <<>>
    /\ closes[SlowWindow] # closes[1]
    /\ closes[SlowWindow + 1] # closes[SlowWindow]

(* C18 (as claimed): after the scan has processed a bar, warm-up bars      *)
(* included, last_price is the close of that bar.                          *)
C18_LastPriceEveryBar ==
    i > 1 => last_price = closes[i - 1]

(* C20: the position is -1, 0 or +1; trades counts the events emitted; the *)
(* position is 0 exactly while no event has been emitted and never returns *)
(* to 0; otherwise it is +1 after a BUY and -1 after a SELL.               *)
C20_PositionBookkeeping ==
    /\ [](/\ pos \in {-1, 0, 1}
          /\ trades = Len(signals)
          /\ pos = 0 <=> signals = <<>>
          /\ signals # <<>>
                => pos = (IF signals[Len(signals)].action = "BUY" THEN 1 ELSE -1))
    /\ [][pos # 0 => pos' # 0]_vars

(* A scan has ended short after a BUY and a SELL. *)
C20_Witness ==
    /\ ScanDone
    /\ Len(signals) = 2
    /\ signals[1].action = "BUY" /\ signals[2].action = "SELL"
    /\ pos = -1 /\ trades = 2

----------------------------------------------------------------------------
(* C19: the store step of a RunForecast (reached only with a non-empty     *)
(* series, whatever the predictor answered) puts for its symbol an entry   *)
(* with an empty signal list and its envelope as summary, and leaves the   *)
(* entries and summaries of all other symbols alone; the envelope it       *)
(* returns is that summary; a QuerySignals that then looks the symbol up   *)
(* gets that entry and returns no signals.                                 *)
C19_ForecastReplacesEntry ==
    [][\A t \in DOMAIN req :
          /\ (req[t].kind = "forecast" /\ req[t].pc = "store" /\ req'[t] # req[t])
                => LET sym == req[t].symbol
                       e == CHOOSE x \in {last_signals'[k] : k \in 1..Len(last_signals')} :
                                x.symbol = sym
                   IN  /\ \E k \in 1..Len(last_signals') : last_signals'[k].symbol = sym
                       /\ e.signals = <<>>
                       /\ (DOMAIN objs'[e.summary]) = EnvelopeKeys
                       /\ objs'[e.summary].symbol = sym
                       /\ objs'[e.summary].tf_ok = req[t].tf.tf_ok
                       /\ req'[t].pc = "done" => req'[t].body = objs'[e.summary]
                       /\ req'[t].pc = "comment" => req'[t].result = e.summary
                       /\ \A k \in 1..Len(last_signals) :
                             last_signals[k].symbol # sym
                                => /\ last_signals'[k] = last_signals[k]
                                   /\ objs'[last_signals[k].summary]
                                         = objs[last_signals[k].summary]
          /\ (/\ req[t].kind = "forecast" /\ Step(t, "comment", "done")
              /\ req[t].result \in DOMAIN objs')
                => req'[t].body = objs'[req[t].result]
          /\ (Step(t, "get", "view") /\ CachedEntry(req[t].symbol).signals = <<>>)
                => req'[t].entry[1].signals = <<>>
          /\ (Step(t, "view", "done") /\ req[t].entry[1].signals = <<>>)
                => RespSignals(req'[t].body) = <<>>]_vars

(* A forecast whose predictor call failed has returned; the cache holds    *)
(* its envelope with no signals for its symbol, which was cached before    *)
(* the other symbol was, and still holds the signals of the other symbol.  *)
C19_Witness ==
    \E t \in DOMAIN req :
        /\ req[t].pc = "done" /\ req[t].kind = "forecast" /\ req[t].status = 200
        /\ req[t].body.tf_ok = FALSE
        /\ Len(last_signals) = 2
        /\ last_signals[1].symbol = req[t].symbol
        /\ last_signals[1].signals = <<>>
        /\ objs[last_signals[1].summary] = req[t].body
        /\ last_signals[2].signals # <<>>

----------------------------------------------------------------------------
(* C21: no step of a QuerySignals call (with or without a symbol, for any  *)
(* limit, answered 200 or 404) changes the cache: the entries, their       *)
(* signal lists and the summaries they hold stay as they were.             *)
C21_QueryReadOnly ==
    [][\A t \in DOMAIN req :
          (req'[t] # req[t] /\ (req[t].pc \in {"get", "view", "begin", "iterate"}
                                \/ req'[t].pc \in {"get", "begin"}))
             => /\ last_signals' = last_signals
                /\ \A k \in 1..Len(last_signals) :
                      objs'[last_signals[k].summary] = objs[last_signals[k].summary]]_vars

(* A query with limit 1 has returned one event of a symbol for which the   *)
(* cache still holds more than one.                                        *)
C21_Witness ==
    \E t \in DOMAIN req :
        /\ req[t].pc = "done" /\ req[t].kind = "signals" /\ req[t].status = 200
        /\ module = "main"
        /\ req[t].symbol # None
        /\ req[t].limitArg = <<1>>
        /\ Len(RespSignals(req[t].body)) = 1
        /\ Cached(req[t].symbol)
        /\ Len(CachedEntry(req[t].symbol).signals) >= 2

====
